---- MODULE Spec2Model ----
(***************************************************************************)
(* Model of src/Job_Search.py: the per-keyword Search -> Fetch ->          *)
(* Enrichment -> Persistence orchestration, the memoised detail fetch run  *)
(* on a thread pool, the batch insert on one database connection, and the  *)
(* text functions filter_numbers / estimate_experience.                    *)
(***************************************************************************)
EXTENDS Integers, Sequences, FiniteSets, TLC

VARIABLES
    pc,             \* position of the control thread in main / job_search
    conn,           \* the database connection: "none", "open" or "closed"
    did,            \* external operations performed so far in this run
    kw,             \* index of the keyword the loop of main is at
    jobs,           \* job identifiers of the summaries search_jobs returned
    task,           \* state of the pool's future for each summary
    fetched,        \* value held by each future
    job_details,    \* the list parallel_job_search returned to job_search
    idx,            \* position of the loop of job_search in job_details
    est,            \* outcome of the loop body for each job detail
    job_data_batch, \* tuples collected for the insert
    lastInsert,     \* how the batch insert of the last job_search ended
    cache,          \* lru_cache of get_job_details
    called,         \* identifiers for which the fetches of the batch started an api.get_job call
    table,          \* committed rows
    pending,        \* rows executed on the connection and not committed
    text,           \* input text of the text-function specification
    result          \* last text function applied and the value it returned

mainVars == <<pc, conn, did, kw, jobs, task, fetched, job_details, idx, est,
              job_data_batch, lastInsert, cache, called, table,
              pending>>
batchVars == <<jobs, task, fetched, job_details, idx, est, job_data_batch,
               lastInsert>>
dbVars == <<table, pending>>
textVars == <<text, result>>
vars == <<mainVars, textVars>>

None == [op |-> "none", val |-> 0]

(***************************************************************************)
(* Bounds                                                                  *)
(***************************************************************************)
MaxLen == 5          \* longest text given to the text functions
MaxJobId == 2        \* job identifiers the provider hands out: 1..MaxJobId
MaxBatch == 2        \* most summaries one search returns

(***************************************************************************)
(* Program constants                                                       *)
(***************************************************************************)
NumKeywords == 3     \* keywords = ["Software Engineer", "Backend", "Cloud Engineer"]
max_workers == 10    \* ThreadPoolExecutor(max_workers=10)
maxsize == 1000      \* lru_cache(maxsize=1000)

(***************************************************************************)
(* Characters.  Two digits, the two symbols the regex names, a blank and a *)
(* letter (a word character that is no digit).                             *)
(***************************************************************************)
Digits == {"1", "2"}
Chars == Digits \cup {"-", "+", " ", "a"}

IsDigit(c) == c \in Digits
IsWord(c) == c \in Digits \cup {"a"}          \* \w
IsSpace(c) == c = " "                         \* \s

DigitVal(c) == IF c = "1" THEN 1 ELSE 2

Texts == UNION {[1..n -> Chars] : n \in 0..MaxLen}

(***************************************************************************)
(* Regex primitives of  \b\d+\+?|\b\d+\s*-\s*\d+\b                         *)
(* Positions are 1-based; "at i" means between character i-1 and i.        *)
(***************************************************************************)
\* \b : exactly one of the two neighbouring characters is a word character
Boundary(t, i) ==
    LET before == i > 1 /\ IsWord(t[i - 1])
        after == i <= Len(t) /\ IsWord(t[i])
    IN before # after

\* \d* greedy: the position after the longest digit run starting at i
RECURSIVE DigitsEnd(_, _)
DigitsEnd(t, i) ==
    IF i <= Len(t) /\ IsDigit(t[i]) THEN DigitsEnd(t, i + 1) ELSE i

\* \s* greedy
RECURSIVE SpacesEnd(_, _)
SpacesEnd(t, i) ==
    IF i <= Len(t) /\ IsSpace(t[i]) THEN SpacesEnd(t, i + 1) ELSE i

\* first alternative \b\d+\+? at i: end position of the match, 0 when none
Alt1End(t, i) ==
    LET e == DigitsEnd(t, i)
    IN IF Boundary(t, i) /\ e > i
       THEN IF e <= Len(t) /\ t[e] = "+" THEN e + 1 ELSE e
       ELSE 0

\* second alternative \b\d+\s*-\s*\d+\b at i: end position, 0 when none.
\* The digit runs cannot be shortened by backtracking: a shorter first run is
\* followed by a digit, and a shorter second run ends between two digits,
\* where there is no \b.
Alt2End(t, i) ==
    LET e1 == DigitsEnd(t, i)
        s1 == SpacesEnd(t, e1)
        s2 == SpacesEnd(t, s1 + 1)
        e2 == DigitsEnd(t, s2)
    IN IF /\ Boundary(t, i) /\ e1 > i
          /\ s1 <= Len(t) /\ t[s1] = "-"
          /\ e2 > s2 /\ Boundary(t, e2)
       THEN e2
       ELSE 0

\* the alternation tries the first alternative first
MatchEnd(t, i) == IF Alt1End(t, i) # 0 THEN Alt1End(t, i) ELSE Alt2End(t, i)

\* re.findall: leftmost, non-overlapping matches, scanning from position i
RECURSIVE FindAll(_, _)
FindAll(t, i) ==
    IF i > Len(t) THEN <<>>
    ELSE IF MatchEnd(t, i) # 0
         THEN <<SubSeq(t, i, MatchEnd(t, i) - 1)>> \o FindAll(t, MatchEnd(t, i))
         ELSE FindAll(t, i + 1)

(***************************************************************************)
(* String helpers of the Python expressions                                *)
(***************************************************************************)
Contains(s, c) == \E i \in 1..Len(s) : s[i] = c

\* s.split(c)[0]
SplitFirst(s, c) ==
    IF Contains(s, c)
    THEN SubSeq(s, 1, (CHOOSE i \in 1..Len(s) :
                          s[i] = c /\ \A k \in 1..(i - 1) : s[k] # c) - 1)
    ELSE s

\* s.replace(c, '')
RECURSIVE Remove(_, _)
Remove(s, c) ==
    IF s = <<>> THEN <<>>
    ELSE IF Head(s) = c THEN Remove(Tail(s), c)
         ELSE <<Head(s)>> \o Remove(Tail(s), c)

\* s.strip()
RECURSIVE LStrip(_)
LStrip(s) == IF s # <<>> /\ IsSpace(Head(s)) THEN LStrip(Tail(s)) ELSE s
RECURSIVE RStrip(_)
RStrip(s) ==
    IF s # <<>> /\ IsSpace(s[Len(s)]) THEN RStrip(SubSeq(s, 1, Len(s) - 1)) ELSE s
Strip(s) == RStrip(LStrip(s))

\* value of a non-empty digit string
RECURSIVE DigitsVal(_)
DigitsVal(s) ==
    IF s = <<>> THEN 0 ELSE 10 * DigitsVal(SubSeq(s, 1, Len(s) - 1)) + DigitVal(s[Len(s)])

AllDigits(s) == s # <<>> /\ \A i \in 1..Len(s) : IsDigit(s[i])

\* int(s): surrounding blanks, one optional sign, then digits only;
\* ok = FALSE stands for ValueError
PyInt(s) ==
    LET u == Strip(s)
        signed == u # <<>> /\ u[1] \in {"+", "-"}
        body == IF signed THEN Tail(u) ELSE u
    IN IF AllDigits(body)
       THEN [ok |-> TRUE,
             val |-> IF signed /\ u[1] = "-" THEN 0 - DigitsVal(body) ELSE DigitsVal(body)]
       ELSE [ok |-> FALSE, val |-> 0]

(***************************************************************************)
(* filter_numbers and estimate_experience                                  *)
(***************************************************************************)
\* variant: the last match instead of the first (pattern[-1])
FirstMatch_Last(pattern) == pattern[Len(pattern)]

\* pattern[0] of a non-empty findall result
FirstMatch(pattern) == pattern[1]

filter_numbers(t) ==
    LET pattern == FindAll(t, 1)
    IN IF pattern = <<>> THEN 0
       ELSE LET match == FirstMatch(pattern)
            IN PyInt(IF Contains(match, "-")
                     THEN Strip(SplitFirst(match, "-"))
                     ELSE Strip(Remove(match, "+"))).val

\* the value returned for the response text t of the generative-text provider
estimate_experience(t) ==
    IF PyInt(t).ok THEN PyInt(t).val ELSE filter_numbers(t)

(***************************************************************************)
(* Data of the orchestration                                               *)
(***************************************************************************)
JobIds == 1..MaxJobId

\* what search_jobs can return: the trackingUrn identifiers of the summaries
JobSeqs == UNION {[1..n -> JobIds] : n \in 0..MaxBatch}

\* a job detail: its identifier and whether the nested fields that lines
\* 102-105 read are present (trackingUrn is taken to be present and numeric,
\* as it was for the summary)
Details == [id : JobIds, complete : BOOLEAN]
NoDetail == [id |-> 0, complete |-> FALSE]

\* response texts of the generative-text provider
Responses == {<<"1">>, <<"2", "+">>}

NoEst == [kind |-> "none", val |-> 0]

(***************************************************************************)
(* lru_cache(maxsize) of get_job_details: a function from the identifiers  *)
(* it holds to their details.  The provider handle is the same in every    *)
(* call, so the key is the identifier.                                     *)
(***************************************************************************)
\* variant: a lookup that never finds the key
CacheHit_Never(c, j) == FALSE

CacheHit(c, j) == j \in DOMAIN c

CacheGet(c, j) == c[j]

\* storing a computed result: the entry is kept as it is when another thread
\* stored the key meanwhile; a full cache drops an entry first (the least
\* recently used one in the code; with fewer than maxsize identifiers the
\* cache is never full, so the order of use is not recorded)
CachePut(c, j, d) ==
    IF CacheHit(c, j) THEN c
    ELSE LET kept == IF Cardinality(DOMAIN c) >= maxsize
                     THEN DOMAIN c \ {CHOOSE k \in DOMAIN c : TRUE}
                     ELSE DOMAIN c
         IN [k \in kept \cup {j} |-> IF k = j THEN d ELSE c[k]]

(***************************************************************************)
(* Initial state: nothing connected, empty cache, empty table              *)
(***************************************************************************)
InitMain ==
    /\ pc = "start"
    /\ conn = "none"
    /\ did = {}
    /\ kw = 1
    /\ jobs = <<>>
    /\ task = <<>>
    /\ fetched = <<>>
    /\ job_details = <<>>
    /\ idx = 1
    /\ est = <<>>
    /\ job_data_batch = <<>>
    /\ lastInsert = "none"
    /\ cache = <<>>
    /\ called = {}
    /\ table = {}
    /\ pending = {}

Init == InitMain /\ text = <<>> /\ result = None

(***************************************************************************)
(* main: connect, set up the providers                                     *)
(***************************************************************************)
\* variant: main without the early return
AfterConnect_NoReturn(c) == "setup"

\* where main goes after connect_to_database returned c
AfterConnect(c) == IF c = "none" THEN "done" ELSE "setup"

\* connection = connect_to_database(...); if connection is None: return
Connect ==
    /\ pc = "start"
    /\ \E c \in {"open", "none"} :
          /\ conn' = c
          /\ pc' = AfterConnect(c)
    /\ UNCHANGED <<did, kw, batchVars, cache, called, dbVars, textVars>>

\* api = Linkedin(...); model = configure_genai(...).  The login may raise.
Setup ==
    /\ pc = "setup"
    /\ did' = did \cup {"auth"}
    /\ \E raised \in BOOLEAN : pc' = IF raised THEN "crashed" ELSE "search"
    /\ UNCHANGED <<conn, kw, batchVars, cache, called, dbVars, textVars>>

(***************************************************************************)
(* Search stage and the submission of the fetches                          *)
(***************************************************************************)
\* jobs = api.search_jobs(...); job_search begins: job_data_batch = [] and
\* executor.map submits one future per summary
Search ==
    /\ pc = "search"
    /\ kw <= NumKeywords
    /\ did' = did \cup {"search"}
    /\ \/ /\ pc' = "crashed"                       \* search_jobs raises
          /\ UNCHANGED <<batchVars, called>>
       \/ \E js \in JobSeqs :
             /\ jobs' = js
             /\ task' = [i \in 1..Len(js) |-> "pending"]
             /\ fetched' = [i \in 1..Len(js) |-> NoDetail]
             /\ job_details' = <<>>
             /\ idx' = 1
             /\ est' = <<>>
             /\ job_data_batch' = <<>>
             /\ lastInsert' = "none"
             /\ called' = {}
             /\ pc' = "fetch"
    /\ UNCHANGED <<conn, kw, cache, dbVars, textVars>>

(***************************************************************************)
(* Fetch stage: the pool's workers                                         *)
(***************************************************************************)
Running(t) == {i \in 1..Len(t) : t[i] = "calling"}

\* a worker takes a pending future: fetch_job_data -> get_job_details looks
\* the identifier up; a hit returns the cached detail, a miss starts
\* api.get_job
TaskStart(i) ==
    /\ pc = "fetch"
    /\ i \in 1..Len(task)
    /\ task[i] = "pending"
    /\ Cardinality(Running(task)) < max_workers
    /\ did' = did \cup {"fetch"}
    /\ IF CacheHit(cache, jobs[i])
       THEN /\ task' = [task EXCEPT ![i] = "done"]
            /\ fetched' = [fetched EXCEPT ![i] = CacheGet(cache, jobs[i])]
            /\ UNCHANGED <<cache, called>>
       ELSE /\ task' = [task EXCEPT ![i] = "calling"]
            /\ called' = called \cup {jobs[i]}
            /\ UNCHANGED <<fetched, cache>>
    /\ UNCHANGED <<pc, conn, kw, jobs, job_details, idx, est, job_data_batch,
                   lastInsert, dbVars, textVars>>

\* api.get_job returns a detail, the lru_cache wrapper stores it and the
\* future completes; or api.get_job raises and the future holds the exception
TaskReturn(i) ==
    /\ pc \in {"fetch", "unwind"}
    /\ i \in 1..Len(task)
    /\ task[i] = "calling"
    /\ \/ \E c \in BOOLEAN :
             LET d == [id |-> jobs[i], complete |-> c]
             IN /\ fetched' = [fetched EXCEPT ![i] = d]
                /\ cache' = CachePut(cache, jobs[i], d)
                /\ task' = [task EXCEPT ![i] = "done"]
       \/ /\ task' = [task EXCEPT ![i] = "raised"]
          /\ UNCHANGED <<fetched, cache>>
    /\ UNCHANGED <<pc, conn, did, kw, jobs, job_details, idx, est, job_data_batch,
                   lastInsert, called, dbVars, textVars>>

(***************************************************************************)
(* Fetch stage: the control thread in parallel_job_search                  *)
(***************************************************************************)
\* variant: the stage returns once every future was taken by a worker
FetchStageReturns_NoWait(t) == \A i \in 1..Len(t) : t[i] # "pending"

\* list(executor.map(...)) has every result and the with block has joined
\* the pool
FetchStageReturns(t) == \A i \in 1..Len(t) : t[i] = "done"

\* the result the iterator of executor.map is waiting for
NextResult(t) ==
    IF \E i \in 1..Len(t) : t[i] # "done"
    THEN CHOOSE i \in 1..Len(t) : t[i] # "done" /\ \A k \in 1..(i - 1) : t[k] = "done"
    ELSE 0

\* the exit of the with block: shutdown(wait=True)
PoolJoined(t) == Running(t) = {}

\* parallel_job_search returns the details to job_search
FetchDone ==
    /\ pc = "fetch"
    /\ FetchStageReturns(task)
    /\ job_details' = fetched
    /\ est' = [i \in 1..Len(fetched) |-> NoEst]
    /\ idx' = 1
    /\ pc' = "enrich"
    /\ UNCHANGED <<conn, did, kw, jobs, task, fetched, job_data_batch, lastInsert,
                   cache, called, dbVars, textVars>>

\* the result the iterator waits for raised: the iterator cancels the
\* futures no worker has taken and the exception leaves list()
FetchRaise ==
    /\ pc = "fetch"
    /\ NextResult(task) # 0
    /\ task[NextResult(task)] = "raised"
    /\ task' = [i \in 1..Len(task) |-> IF task[i] = "pending" THEN "cancelled" ELSE task[i]]
    /\ pc' = "unwind"
    /\ UNCHANGED <<conn, did, kw, jobs, fetched, job_details, idx, est,
                   job_data_batch, lastInsert, cache, called, dbVars, textVars>>

\* the with block has joined the running workers; the exception leaves
\* parallel_job_search, job_search (line 98 is outside the try) and main
FetchAbort ==
    /\ pc = "unwind"
    /\ PoolJoined(task)
    /\ pc' = "crashed"
    /\ UNCHANGED <<conn, did, kw, batchVars, cache, called, dbVars, textVars>>

(***************************************************************************)
(* Enrichment and persistence stages: the loop of job_search               *)
(***************************************************************************)
\* variant: absent fields go unnoticed
FieldsExtractable_Always(d) == TRUE

\* variant: the filter admits two years
Qualifies_UpToTwo(e) == e <= 2

\* the four nested lookups of lines 102-105 succeed
FieldsExtractable(d) == d.complete

\* if experience <= 1
Qualifies(e) == e <= 1

\* one iteration of "for job in job_details", the except clause included:
\* a lookup of an absent field ("skipped") or a raising generate_content
\* ("raised") ends the iteration in the except clause
EnrichJob ==
    /\ pc = "enrich"
    /\ idx <= Len(job_details)
    /\ LET job == job_details[idx]
       IN IF ~FieldsExtractable(job)
          THEN /\ est' = [est EXCEPT ![idx] = [kind |-> "skipped", val |-> 0]]
               /\ UNCHANGED <<did, job_data_batch>>
          ELSE /\ did' = did \cup {"generate"}
               /\ \/ /\ est' = [est EXCEPT ![idx] = [kind |-> "raised", val |-> 0]]
                     /\ UNCHANGED job_data_batch
                  \/ \E r \in Responses :
                        LET experience == estimate_experience(r)
                        IN /\ est' = [est EXCEPT ![idx] = [kind |-> "value", val |-> experience]]
                           /\ job_data_batch' =
                                 IF Qualifies(experience)
                                 THEN Append(job_data_batch,
                                             [Id |-> job.id, Experience |-> experience])
                                 ELSE job_data_batch
    /\ idx' = idx + 1
    /\ UNCHANGED <<pc, conn, kw, jobs, task, fetched, job_details, lastInsert,
                   cache, called, dbVars, textVars>>

Ids(rows) == {r.Id : r \in rows}

\* index of the first tuple whose Id violates the primary key, 0 when none
FirstDuplicate(rows, existing) ==
    LET dup(i) == rows[i].Id \in existing \/ \E k \in 1..(i - 1) : rows[k].Id = rows[i].Id
    IN IF \E i \in 1..Len(rows) : dup(i)
       THEN CHOOSE i \in 1..Len(rows) : dup(i) /\ \A k \in 1..(i - 1) : ~dup(k)
       ELSE 0

\* cursor.executemany: the rows left executed on the connection.  A driver
\* may send the tuples one by one (rowwise: those before the failing one
\* stay executed) or as one statement that the store undoes as a whole.
ExecuteMany(rows, existing, rowwise) ==
    LET f == FirstDuplicate(rows, existing)
    IN [ok |-> f = 0,
        executed |-> IF f = 0 THEN {rows[i] : i \in 1..Len(rows)}
                     ELSE IF rowwise THEN {rows[i] : i \in 1..(f - 1)}
                     ELSE {}]

\* the end of job_search: "if job_data_batch: batch_insert_jobs(...)", then
\* main's loop moves to the next keyword.  batch_insert_jobs commits after
\* executemany, and on Error only prints.
JobSearchFinish ==
    /\ pc = "enrich"
    /\ idx > Len(job_details)
    /\ IF job_data_batch = <<>>
       THEN /\ lastInsert' = "skipped"
            /\ UNCHANGED <<did, dbVars>>
       ELSE /\ did' = did \cup {"insert"}
            /\ \E rowwise \in BOOLEAN :
                  LET x == ExecuteMany(job_data_batch, Ids(table) \cup Ids(pending), rowwise)
                  IN IF x.ok
                     THEN /\ table' = table \cup pending \cup x.executed
                          /\ pending' = {}
                          /\ lastInsert' = "committed"
                     ELSE /\ pending' = pending \cup x.executed
                          /\ lastInsert' = "failed"
                          /\ UNCHANGED table
    /\ kw' = kw + 1
    /\ pc' = "search"
    /\ UNCHANGED <<conn, jobs, task, fetched, job_details, idx, est, job_data_batch,
                   cache, called, textVars>>

\* connection.close(): what was not committed is dropped
Close ==
    /\ pc = "search"
    /\ kw > NumKeywords
    /\ conn' = "closed"
    /\ pending' = {}
    /\ pc' = "done"
    /\ UNCHANGED <<did, kw, batchVars, cache, called, table, textVars>>

Next ==
    \/ Connect
    \/ Setup
    \/ Search
    \/ \E i \in 1..MaxBatch : TaskStart(i)
    \/ \E i \in 1..MaxBatch : TaskReturn(i)
    \/ FetchDone
    \/ FetchRaise
    \/ FetchAbort
    \/ EnrichJob
    \/ JobSearchFinish
    \/ Close

Spec == Init /\ [][Next]_vars

(***************************************************************************)
(* Specification of the text functions: any text up to MaxLen, then the    *)
(* functions are applied to it.                                            *)
(***************************************************************************)
InitText ==
    /\ InitMain
    /\ text \in Texts
    /\ result = None

ApplyFilterNumbers ==
    /\ result.op # "filter_numbers"
    /\ result' = [op |-> "filter_numbers", val |-> filter_numbers(text)]
    /\ UNCHANGED <<text, mainVars>>

ApplyEstimateExperience ==
    /\ result.op # "estimate_experience"
    /\ result' = [op |-> "estimate_experience", val |-> estimate_experience(text)]
    /\ UNCHANGED <<text, mainVars>>

NextText == ApplyFilterNumbers \/ ApplyEstimateExperience

SpecText == InitText /\ [][NextText]_vars

(***************************************************************************)
(* Properties                                                              *)
(***************************************************************************)
\* job_search has returned for the batch the batch variables describe
JobSearchReturned == lastInsert # "none"

Valued(i) == est[i].kind = "value"

RowOf(i) == [Id |-> job_details[i].id, Experience |-> est[i].val]

\* C1 as stated: after job_search returns, a job detail for which an
\* estimate was computed has a row in the table if and only if that estimate
\* is <= 1.
C1_PersistedIffQualifies ==
    JobSearchReturned =>
        \A i \in 1..Len(job_details) :
            Valued(i) => ((job_details[i].id \in Ids(table)) <=> (est[i].val <= 1))

\* C1 amended: no row executed or committed has Experience > 1, and when the
\* batch insert of a keyword commits, every job detail of the batch whose
\* computed estimate is <= 1 has its row in the table after job_search
\* returns.
C1_PersistedOnlyQualifying ==
    /\ \A r \in table \cup pending : r.Experience <= 1
    /\ lastInsert = "committed" =>
          \A i \in 1..Len(job_details) :
              (Valued(i) /\ est[i].val <= 1) => RowOf(i) \in table

\* a committed batch that had a job above the limit and a job within it
C1_Witness ==
    /\ lastInsert = "committed"
    /\ \E i, k \in 1..Len(job_details) :
          /\ Valued(i) /\ est[i].val > 1
          /\ Valued(k) /\ est[k].val <= 1 /\ RowOf(k) \in table

\* task i goes from not calling to calling: an api.get_job call starts
CallStarts(i) == task[i] # "calling" /\ task'[i] = "calling"

\* C2 as stated: at most one api.get_job call is started for an identifier,
\* concurrent invocations of one batch included.
C2_AtMostOneRemoteCall ==
    [][\A i \in DOMAIN task \cap DOMAIN task' :
          CallStarts(i) => jobs[i] \notin called]_vars

\* C2 amended: an invocation of get_job_details that finds the identifier in
\* the cache, i.e. one that begins after an earlier invocation for it has
\* returned and stored its result, starts no api.get_job call.
C2_NoCallWhenCached ==
    [][\A i \in DOMAIN task \cap DOMAIN task' :
          CallStarts(i) => jobs[i] \notin DOMAIN cache]_vars

\* a fetch completed for an identifier the cache holds from an earlier
\* keyword, with no api.get_job call started for it in this batch
C2_Witness ==
    \E i \in 1..Len(task) :
        task[i] = "done" /\ jobs[i] \in DOMAIN cache /\ jobs[i] \notin called

C4_FetchFailureIsolated ==
    \A i \in 1..Len(task) :
        (task[i] = "raised" /\ pc \notin {"fetch", "unwind"}) =>
            \A k \in 1..Len(task) :
                k # i => /\ task[k] \in {"done", "raised"}
                         /\ task[k] = "done" =>
                               /\ k <= Len(job_details)
                               /\ job_details[k] = fetched[k]

\* C5 as stated: when main has ended and the connection had been opened, the
\* connection is closed.
C5_ConnectionClosedAtEnd ==
    (pc \in {"done", "crashed"} /\ conn # "none") => conn = "closed"

\* C6: when connect_to_database returned None, main has ended and no login,
\* search, fetch, generative-text call or insert was performed.
C6_NoWorkWithoutConnection ==
    (pc # "start" /\ conn = "none") =>
        /\ pc = "done"
        /\ did = {}
        /\ called = {} /\ cache = <<>>
        /\ table = {} /\ pending = {}

\* main has ended after a failed connect
C6_Witness == pc = "done" /\ conn = "none"

\* the tuples the loop of job_search owes for the first n job details
RECURSIVE ExpectedBatch(_)
ExpectedBatch(n) ==
    IF n = 0 THEN <<>>
    ELSE IF job_details[n].complete /\ Valued(n) /\ est[n].val <= 1
         THEN Append(ExpectedBatch(n - 1), RowOf(n))
         ELSE ExpectedBatch(n - 1)

\* job details the loop of job_search is through with
Processed == idx - 1

\* C7: a job detail with an absent field is skipped (no generative-text call
\* outcome, no tuple), the loop goes on to the end of the batch, and the
\* batch holds exactly the tuples of the complete job details whose estimate
\* is <= 1; that batch is the one given to the insert.
C7_MissingFieldSkipsOnlyThatJob ==
    /\ \A i \in 1..Processed : ~job_details[i].complete => est[i].kind = "skipped"
    /\ job_data_batch = ExpectedBatch(Processed)
    /\ JobSearchReturned =>
          /\ Processed = Len(job_details)
          /\ pc \in {"search", "done", "crashed"}
          /\ job_data_batch # <<>> => lastInsert \in {"committed", "failed"}

\* a batch whose first job detail lacked a field and whose later job detail
\* was estimated, collected and committed
C7_Witness ==
    /\ lastInsert = "committed"
    /\ \E i, k \in 1..Len(job_details) :
          /\ i < k
          /\ ~job_details[i].complete /\ est[i].kind = "skipped"
          /\ job_details[k].complete /\ Valued(k) /\ RowOf(k) \in table

\* the text holds a range N-M whose N starts at p: two whole digit runs
\* joined by "-"
RangeAt(t, p) ==
    /\ p \in 1..Len(t)
    /\ IsDigit(t[p])
    /\ p = 1 \/ ~IsDigit(t[p - 1])
    /\ DigitsEnd(t, p) <= Len(t)
    /\ t[DigitsEnd(t, p)] = "-"
    /\ DigitsEnd(t, DigitsEnd(t, p) + 1) > DigitsEnd(t, p) + 1

RangeLow(t, p) == DigitsVal(SubSeq(t, p, DigitsEnd(t, p) - 1))
RangeHigh(t, p) ==
    DigitsVal(SubSeq(t, DigitsEnd(t, p) + 1, DigitsEnd(t, DigitsEnd(t, p) + 1) - 1))

\* the range at p is the first number of the text: no digit before it and
\* no word character directly before it
RangeComesFirst(t, p) ==
    /\ \A k \in 1..(p - 1) : ~IsDigit(t[k])
    /\ p = 1 \/ ~IsWord(t[p - 1])

\* C8 as stated: for a text containing a range N-M with N < M, wherever it
\* stands, filter_numbers returns N.
C8_RangeLowerBoundAnywhere ==
    result.op = "filter_numbers" =>
        \A p \in 1..Len(text) :
            (RangeAt(text, p) /\ RangeLow(text, p) < RangeHigh(text, p)) =>
                result.val = RangeLow(text, p)

\* C8 amended: for a text containing a range N-M with N < M that no digit
\* precedes and whose N is not directly preceded by a word character,
\* filter_numbers returns N.
C8_RangeLowerBoundWhenFirst ==
    result.op = "filter_numbers" =>
        \A p \in 1..Len(text) :
            (/\ RangeAt(text, p)
             /\ RangeLow(text, p) < RangeHigh(text, p)
             /\ RangeComesFirst(text, p)) =>
                result.val = RangeLow(text, p)

\* filter_numbers applied to a text whose range stands after other tokens
C8_Witness ==
    /\ result.op = "filter_numbers"
    /\ \E p \in 2..Len(text) :
          /\ RangeAt(text, p)
          /\ RangeLow(text, p) < RangeHigh(text, p)
          /\ RangeComesFirst(text, p)
          /\ result.val = RangeLow(text, p)

\* C9 as stated: estimate_experience returns a non-negative integer for
\* every response text.
C9_EstimateNonNegative ==
    result.op = "estimate_experience" => result.val >= 0

InFlight(t) == {i \in 1..Len(t) : t[i] \in {"pending", "calling"}}

\* C10: no generative-text call and no batch insert can start (the control
\* thread is in the loop of job_search) while a fetch of the batch is
\* pending or running; outside the Fetch Stage no worker runs; and the
\* search of the next keyword starts only after the loop of job_search has
\* covered the whole batch and its insert, if any, has returned.
C10_StagesAreBarriers ==
    /\ pc = "enrich" => InFlight(task) = {}
    /\ pc \notin {"fetch", "unwind"} => Running(task) = {}
    /\ (pc = "search" /\ kw > 1) =>
          /\ InFlight(task) = {}
          /\ idx > Len(job_details)
          /\ JobSearchReturned

\* the loop of job_search is about to start on a batch of two or more
\* fetched details
C10_Witness ==
    /\ pc = "enrich"
    /\ idx = 1
    /\ Len(task) >= 2
    /\ \A i \in 1..Len(task) : task[i] = "done"

====
